---- MODULE Spec2Model ----
(***************************************************************************)
(* Model of the Quercle JavaScript/TypeScript SDK client.                  *)
(*                                                                         *)
(* The repository carries two client implementations:                     *)
(*   - the hand-written client (src/unnamed/part_005, with src/src/errors.ts *)
(*     and src/src/types.ts): class QuercleClient with fetch/search,       *)
(*     request and handleError; called "legacy" below;                     *)
(*   - the client built on the generated transport (src/unnamed/part_001): *)
(*     class QuercleClient with resolveApiKey, resolveBaseUrl,             *)
(*     resolveCallFetch and unwrapResult; called "sdk" below.              *)
(*                                                                         *)
(* Strings are sequences of tokens.  The tokens " " (whitespace) and "/"   *)
(* (slash) are single characters; every other token stands for a           *)
(* non-empty run of characters holding neither whitespace nor a slash.     *)
(***************************************************************************)
EXTENDS Integers, Sequences, FiniteSets, TLC

VARIABLES env, client, ctor, calls

vars == <<env, client, ctor, calls>>

(***************************************************************************)
(* Bounds of the model.                                                    *)
(***************************************************************************)
MaxKeyLen == 2
MaxUrlLen == 2
MaxDomains == 2

(***************************************************************************)
(* Strings, optional values (undefined), JavaScript helpers.               *)
(***************************************************************************)
Strs(A, n) == UNION {[1..m -> A] : m \in 0..n}

NoStr == [def |-> FALSE, val |-> <<>>]
Str(s) == [def |-> TRUE, val |-> s]
Opt(S) == {NoStr} \cup {Str(s) : s \in S}

NoNum == [def |-> FALSE, val |-> 0]
Num(n) == [def |-> TRUE, val |-> n]

\* a ?? b
Nullish(a, b) == IF a.def THEN a ELSE b

IsWhitespace(ch) == ch = " "

RECURSIVE trimStart(_)
trimStart(s) ==
  IF s # <<>> /\ IsWhitespace(Head(s)) THEN trimStart(Tail(s)) ELSE s

RECURSIVE trimEnd(_)
trimEnd(s) ==
  IF s # <<>> /\ IsWhitespace(s[Len(s)])
    THEN trimEnd(SubSeq(s, 1, Len(s) - 1))
    ELSE s

\* String.prototype.trim
trim(s) == trimEnd(trimStart(s))

\* stripTrailingSlash leaving the string as it is.
stripTrailingSlash_kept(s) == s

\* s.replace(/\/$/, ""): the pattern matches one slash at the very end.
stripTrailingSlash(s) ==
  IF s # <<>> /\ s[Len(s)] = "/" THEN SubSeq(s, 1, Len(s) - 1) ELSE s

EndsWithSlash(s) == s # <<>> /\ s[Len(s)] = "/"

(***************************************************************************)
(* Program constants.                                                      *)
(***************************************************************************)
DEFAULT_BASE_URL == <<"https:", "/", "/", "quercle.dev">>
DEFAULT_TIMEOUT == 120000
SDK_DEFAULT_BASE_URL == <<"https:", "/", "/", "api.quercle.dev">>

(***************************************************************************)
(* Errors.  classes is the prototype chain that instanceof tests.          *)
(***************************************************************************)
\* A field of a decoded JSON object: absent, null, a string or a number.
Absent == [t |-> "absent", s |-> <<>>]
JsonNull == [t |-> "null", s |-> <<>>]
JsonNumber == [t |-> "num", s |-> <<>>]
JsonString(s) == [t |-> "str", s |-> s]

\* A decoded JSON value.  type is "object", "string", "number", "null" or
\* "array"; an object has the fields result, detail and message and, when
\* extra holds, some further field.
JValue(type, str, result, detail, message, extra) ==
  [type |-> type, str |-> str, result |-> result, detail |-> detail,
   message |-> message, extra |-> extra]

JUndefined == JValue("undefined", <<>>, Absent, Absent, Absent, FALSE)
JObject(result, detail, message, extra) ==
  JValue("object", <<>>, result, detail, message, extra)
JStr(s) == JValue("string", s, Absent, Absent, Absent, FALSE)
JNull == JValue("null", <<>>, Absent, Absent, Absent, FALSE)
JNum == JValue("number", <<>>, Absent, Absent, Absent, FALSE)
JArray == JValue("array", <<>>, Absent, Absent, Absent, FALSE)

NoError ==
  [name |-> "", classes |-> {}, message |-> <<>>, statusCode |-> NoNum,
   detail |-> NoStr, operation |-> "", payload |-> JUndefined]

\* A QuercleError whose instances fail instanceof QuercleError.
QuercleError_foreign(message, statusCode, detail) ==
  [name |-> "QuercleError", classes |-> {"Error"},
   message |-> message, statusCode |-> Num(statusCode), detail |-> detail,
   operation |-> "", payload |-> JUndefined]

\* class QuercleError
QuercleError(message, statusCode, detail) ==
  [name |-> "QuercleError", classes |-> {"Error", "QuercleError"},
   message |-> message, statusCode |-> Num(statusCode), detail |-> detail,
   operation |-> "", payload |-> JUndefined]

AuthenticationError(detail) ==
  [QuercleError(<<"Invalid or missing API key. Get one at https:", "/", "/",
                  "quercle.dev">>, 401, detail)
     EXCEPT !.name = "AuthenticationError",
            !.classes = @ \cup {"AuthenticationError"}]

InsufficientCreditsError(detail) ==
  [QuercleError(<<"Insufficient credits. Top up at https:", "/", "/",
                  "quercle.dev">>, 402, detail)
     EXCEPT !.name = "InsufficientCreditsError",
            !.classes = @ \cup {"InsufficientCreditsError"}]

InactiveAccountError(detail) ==
  [QuercleError(<<"Account is inactive. Contact support at https:", "/", "/",
                  "quercle.dev">>, 403, detail)
     EXCEPT !.name = "InactiveAccountError",
            !.classes = @ \cup {"InactiveAccountError"}]

NotFoundError(detail) ==
  [QuercleError(<<"Resource not found">>, 404, detail)
     EXCEPT !.name = "NotFoundError",
            !.classes = @ \cup {"NotFoundError"}]

TimeoutError(detail) ==
  [QuercleError(<<"Request timed out. Try a simpler query.">>, 504, detail)
     EXCEPT !.name = "TimeoutError",
            !.classes = @ \cup {"TimeoutError"}]

\* new Error(message)
PlainError(message) ==
  [name |-> "Error", classes |-> {"Error"}, message |-> message,
   statusCode |-> NoNum, detail |-> NoStr, operation |-> "",
   payload |-> JUndefined]

(***************************************************************************)
(* Configuration resolution.                                               *)
(* A configuration is [apiKey, baseUrl : optional string,                  *)
(* timeout : optional number, hasClient : BOOLEAN]; the environment is     *)
(* [QUERCLE_API_KEY, QUERCLE_BASE_URL : optional string].                  *)
(***************************************************************************)
NoClient ==
  [kind |-> "none", apiKey |-> <<>>, baseUrl |-> <<>>, timeout |-> NoNum]

\* What a caller-supplied transport client (options.client) is configured with.
PresetClient ==
  [kind |-> "sdk", apiKey |-> <<"p">>, baseUrl |-> <<"preset">>,
   timeout |-> NoNum]

\* Result of a constructor: either the instance or the exception thrown.
Built(c) == [threw |-> FALSE, client |-> c, error |-> NoError]
Threw(e) == [threw |-> TRUE, client |-> NoClient, error |-> e]

\* LegacyConstructor storing the key as given, without trim().
LegacyConstructor_untrimmed(config, e) ==
  LET apiKey == Nullish(config.apiKey, e.QUERCLE_API_KEY)
  IN IF ~apiKey.def \/ trim(apiKey.val) = <<>>
       THEN Threw(AuthenticationError(Str(<<"API key is required">>)))
       ELSE Built([kind |-> "legacy",
                   apiKey |-> apiKey.val,
                   baseUrl |-> stripTrailingSlash(
                                 Nullish(config.baseUrl,
                                         Str(DEFAULT_BASE_URL)).val),
                   timeout |-> Nullish(config.timeout, Num(DEFAULT_TIMEOUT))])

\* QuercleClient.constructor of the hand-written client
LegacyConstructor(config, e) ==
  LET apiKey == Nullish(config.apiKey, e.QUERCLE_API_KEY)
  IN IF ~apiKey.def \/ trim(apiKey.val) = <<>>
       THEN Threw(AuthenticationError(Str(<<"API key is required">>)))
       ELSE Built([kind |-> "legacy",
                   apiKey |-> trim(apiKey.val),
                   baseUrl |-> stripTrailingSlash(
                                 Nullish(config.baseUrl,
                                         Str(DEFAULT_BASE_URL)).val),
                   timeout |-> Nullish(config.timeout, Num(DEFAULT_TIMEOUT))])

\* readEnv
readEnv(e, name) == e[name]

\* resolveApiKey: !resolved is true of undefined and of the empty string.
resolveApiKey(apiKey, e) ==
  LET resolved == Nullish(apiKey, readEnv(e, "QUERCLE_API_KEY"))
  IN IF ~resolved.def \/ resolved.val = <<>>
       THEN [threw |-> TRUE, val |-> <<>>]
       ELSE [threw |-> FALSE, val |-> resolved.val]

\* resolveBaseUrl
resolveBaseUrl(baseUrl, e) ==
  Nullish(Nullish(baseUrl, readEnv(e, "QUERCLE_BASE_URL")),
          Str(SDK_DEFAULT_BASE_URL)).val

\* QuercleClient.constructor of the client on the generated transport
SdkConstructor(options, e) ==
  IF options.hasClient
    THEN Built(PresetClient)
    ELSE LET key == resolveApiKey(options.apiKey, e)
         IN IF key.threw
              THEN Threw(PlainError(<<"Missing API key. Pass apiKey to quercle() or set QUERCLE_API_KEY.">>))
              ELSE Built([kind |-> "sdk",
                          apiKey |-> key.val,
                          baseUrl |-> resolveBaseUrl(options.baseUrl, e),
                          timeout |-> NoNum])

(***************************************************************************)
(* Request bodies.  A body is a JavaScript object: the sequence of its     *)
(* properties in insertion order.  A property value is a string, an array  *)
(* of strings or undefined.                                                *)
(***************************************************************************)
NoArr == [def |-> FALSE, val |-> <<>>]
Arr(a) == [def |-> TRUE, val |-> a]

StrValue(s) == [t |-> "str", s |-> s, a |-> <<>>]
ArrValue(a) == [t |-> "arr", s |-> <<>>, a |-> a]
UndefinedValue == [t |-> "undefined", s |-> <<>>, a |-> <<>>]
BoolValue(b) ==
  [t |-> "bool", s |-> IF b THEN <<"true">> ELSE <<"false">>, a |-> <<>>]

NoBool == [def |-> FALSE, val |-> FALSE]
Bool(b) == [def |-> TRUE, val |-> b]

Prop(k, v) == [k |-> k, v |-> v]

IsDefinedProp(p) == p.v.t # "undefined"

\* JSON.stringify of an object: properties whose value is undefined are left
\* out, the others are written in insertion order.
JSONstringify(body) == SelectSeq(body, IsDefinedProp)

HasField(body, k) == \E i \in 1..Len(body) : body[i].k = k

FieldOf(body, k) ==
  body[CHOOSE i \in 1..Len(body) : body[i].k = k].v

\* body of QuercleClient.fetch (hand-written client): { url, prompt }
LegacyFetchBody(url, prompt) ==
  <<Prop("url", StrValue(url)), Prop("prompt", StrValue(prompt))>>

\* LegacySearchBody filling blocked_domains from allowedDomains.
LegacySearchBody_crossed(query, options) ==
  <<Prop("query", StrValue(query))>>
  \o (IF options.allowedDomains.def /\ Len(options.allowedDomains.val) # 0
        THEN <<Prop("allowed_domains", ArrValue(options.allowedDomains.val))>>
        ELSE <<>>)
  \o (IF options.blockedDomains.def /\ Len(options.blockedDomains.val) # 0
        THEN <<Prop("blocked_domains", ArrValue(options.allowedDomains.val))>>
        ELSE <<>>)

\* body of QuercleClient.search (hand-written client):
\* options?.allowedDomains?.length is falsy for undefined and for [].
LegacySearchBody(query, options) ==
  <<Prop("query", StrValue(query))>>
  \o (IF options.allowedDomains.def /\ Len(options.allowedDomains.val) # 0
        THEN <<Prop("allowed_domains", ArrValue(options.allowedDomains.val))>>
        ELSE <<>>)
  \o (IF options.blockedDomains.def /\ Len(options.blockedDomains.val) # 0
        THEN <<Prop("blocked_domains", ArrValue(options.blockedDomains.val))>>
        ELSE <<>>)

\* body of QuercleClient.fetch (generated transport): { prompt, url }
SdkFetchBody(url, prompt) ==
  <<Prop("prompt", StrValue(prompt)), Prop("url", StrValue(url))>>

\* body of QuercleClient.search (generated transport):
\* if (options.allowedDomains) is true of every array, the empty one included.
SdkSearchBody(query, options) ==
  <<Prop("query", StrValue(query))>>
  \o (IF options.allowedDomains.def
        THEN <<Prop("allowed_domains", ArrValue(options.allowedDomains.val))>>
        ELSE <<>>)
  \o (IF options.blockedDomains.def
        THEN <<Prop("blocked_domains", ArrValue(options.blockedDomains.val))>>
        ELSE <<>>)

\* The optional fields with a test for truthiness in place of !== undefined.
FormatAndSafeguard_truthy(options) ==
  (IF options.format.def /\ options.format.val # <<>>
     THEN <<Prop("format", StrValue(options.format.val))>>
     ELSE <<>>)
  \o (IF options.useSafeguard.def /\ options.useSafeguard.val
        THEN <<Prop("use_safeguard", BoolValue(options.useSafeguard.val))>>
        ELSE <<>>)

\* if (options.format !== undefined) body.format = options.format;
\* if (options.useSafeguard !== undefined) body.use_safeguard = ...
FormatAndSafeguard(options) ==
  (IF options.format.def
     THEN <<Prop("format", StrValue(options.format.val))>>
     ELSE <<>>)
  \o (IF options.useSafeguard.def
        THEN <<Prop("use_safeguard", BoolValue(options.useSafeguard.val))>>
        ELSE <<>>)

\* body of QuercleClient.rawFetch: { url }, format, use_safeguard
SdkRawFetchBody(url, options) ==
  <<Prop("url", StrValue(url))>> \o FormatAndSafeguard(options)

\* body of QuercleClient.rawSearch: { query }, format, use_safeguard
SdkRawSearchBody(query, options) ==
  <<Prop("query", StrValue(query))>> \o FormatAndSafeguard(options)

\* body of QuercleClient.extract: { query, url }, format, use_safeguard
SdkExtractBody(url, query, options) ==
  <<Prop("query", StrValue(query)), Prop("url", StrValue(url))>>
  \o FormatAndSafeguard(options)

\* resolveCallFetch: the delay of the per-call timer, undefined when the call
\* gets no timeout wrapper.
resolveCallFetch(timeoutMs) ==
  IF ~timeoutMs.def \/ timeoutMs.val <= 0 THEN NoNum ELSE timeoutMs

(***************************************************************************)
(* Responses and their handling in the hand-written client.                *)
(* A response is [status, statusText, parsable, body]: parsable tells      *)
(* whether response.json() succeeds, body is the value it then yields.     *)
(***************************************************************************)
NoResp ==
  [status |-> 0, statusText |-> <<>>, parsable |-> FALSE, body |-> JUndefined]

\* Response.ok
ok(status) == status >= 200 /\ status <= 299

\* body.detail ?? body.message ?? ""
DetailOf(body) ==
  IF body.detail.t = "str" THEN body.detail.s
  ELSE IF body.message.t = "str" THEN body.message.s
  ELSE <<>>

\* handleError without the case for 504.
handleError_no504(response) ==
  LET detail == IF ~response.parsable \/ response.body.type = "null"
                  THEN response.statusText
                  ELSE DetailOf(response.body)
  IN CASE response.status = 400 ->
            QuercleError(<<"Invalid request: ">> \o detail, 400, Str(detail))
       [] response.status = 401 -> AuthenticationError(Str(detail))
       [] response.status = 402 -> InsufficientCreditsError(Str(detail))
       [] response.status = 403 ->
            QuercleError(<<"Account inactive">>, 403, Str(detail))
       [] OTHER ->
            QuercleError(<<"Quercle API error (", ToString(response.status),
                           "): ">>
                           \o detail,
                         response.status, Str(detail))

\* QuercleClient.handleError: the error it throws.  Reading a property of
\* null throws inside the try, as a body that is not JSON does.
handleError(response) ==
  LET detail == IF ~response.parsable \/ response.body.type = "null"
                  THEN response.statusText
                  ELSE DetailOf(response.body)
  IN CASE response.status = 400 ->
            QuercleError(<<"Invalid request: ">> \o detail, 400, Str(detail))
       [] response.status = 401 -> AuthenticationError(Str(detail))
       [] response.status = 402 -> InsufficientCreditsError(Str(detail))
       [] response.status = 403 ->
            QuercleError(<<"Account inactive">>, 403, Str(detail))
       [] response.status = 504 -> TimeoutError(Str(detail))
       [] OTHER ->
            QuercleError(<<"Quercle API error (", ToString(response.status),
                           "): ">>
                           \o detail,
                         response.status, Str(detail))

\* Exceptions of the runtime.
RuntimeError(name, message) ==
  [PlainError(message) EXCEPT !.name = name]
AbortError == RuntimeError("AbortError", <<"The operation was aborted">>)
SyntaxError == RuntimeError("SyntaxError", <<"Unexpected token">>)
TypeError(message) == RuntimeError("TypeError", message)

\* a catch block without the test for the AbortError
requestCatch_noAbort(error) ==
  IF "QuercleError" \in error.classes THEN error
  ELSE QuercleError(<<"Network error: ">>
                      \o (IF "Error" \in error.classes THEN error.message
                                                       ELSE <<"Unknown">>),
                    0, NoStr)

\* the catch block of QuercleClient.request
requestCatch(error) ==
  IF "QuercleError" \in error.classes THEN error
  ELSE IF "Error" \in error.classes /\ error.name = "AbortError"
    THEN TimeoutError(NoStr)
  ELSE QuercleError(<<"Network error: ">>
                      \o (IF "Error" \in error.classes THEN error.message
                                                       ELSE <<"Unknown">>),
                    0, NoStr)

\* Outcome of a call, or of one of its steps.
NoOutcome == [kind |-> "none", value |-> JUndefined, error |-> NoError]
Returned(v) == [kind |-> "value", value |-> v, error |-> NoError]
Thrown(e) == [kind |-> "error", value |-> JUndefined, error |-> e]

\* request that lets every status below 500 through as a success.
requestOnResponse_lenient(response) ==
  IF response.status >= 500
    THEN Thrown(requestCatch(handleError(response)))
  ELSE IF ~response.parsable THEN Thrown(requestCatch(SyntaxError))
  ELSE Returned(response.body)

\* QuercleClient.request from the arrival of the response on.
requestOnResponse(response) ==
  IF ~ok(response.status) THEN Thrown(requestCatch(handleError(response)))
  ELSE IF ~response.parsable THEN Thrown(requestCatch(SyntaxError))
  ELSE Returned(response.body)

\* safeParse treating the empty string as a missing result.
safeParse_nonEmpty(data) ==
  IF data.type = "object" /\ data.result.t = "str" /\ data.result.s # <<>>
    THEN [success |-> TRUE, result |-> data.result.s]
    ELSE [success |-> FALSE, result |-> <<>>]

\* FetchResponseSchema / SearchResponseSchema: z.object({ result: z.string() })
safeParse(data) ==
  IF data.type = "object" /\ data.result.t = "str"
    THEN [success |-> TRUE, result |-> data.result.s]
    ELSE [success |-> FALSE, result |-> <<>>]

\* unwrapLegacy returning what request returned, without validation.
unwrapLegacy_unchecked(r) ==
  IF r.kind = "error" THEN r
  ELSE Returned(JStr(r.value.result.s))

\* QuercleClient.fetch / search after request(): validate and unwrap.
unwrapLegacy(r) ==
  IF r.kind = "error" THEN r
  ELSE LET response == safeParse(r.value)
       IN IF ~response.success
            THEN Thrown(QuercleError(<<"Invalid response from API">>, 500,
                                     NoStr))
            ELSE Returned(JStr(response.result))

(***************************************************************************)
(* Results in the client on the generated transport.                       *)
(* An operation result is [data, error : JSON value or undefined,          *)
(* response : optional status].                                            *)
(***************************************************************************)
\* class QuercleApiError
QuercleApiError(operation, statusCode, detail, payload) ==
  [name |-> "QuercleApiError", classes |-> {"Error", "QuercleApiError"},
   message |-> IF detail.def /\ detail.val # <<>>
                 THEN <<"Quercle API ", operation, " failed with status ",
                        ToString(statusCode), ": ">> \o detail.val
                 ELSE <<"Quercle API ", operation, " failed with status ",
                        ToString(statusCode)>>,
   statusCode |-> Num(statusCode), detail |-> detail,
   operation |-> operation, payload |-> payload]

\* extractErrorDetail
extractErrorDetail(error) ==
  IF error.type = "string" /\ trim(error.str) # <<>> THEN Str(error.str)
  ELSE IF error.type \in {"object", "array"}
          /\ error.detail.t = "str" /\ trim(error.detail.s) # <<>>
    THEN Str(error.detail.s)
  ELSE NoStr

\* unwrapResult that returns the data whenever there is some.
unwrapResult_dataFirst(operation, result) ==
  IF result.data.type # "undefined"
    THEN Returned(result.data)
    ELSE LET statusCode == IF result.response.def THEN result.response.val
                                                  ELSE 0
             detail == extractErrorDetail(result.error)
         IN Thrown(QuercleApiError(operation, statusCode, detail,
                                   result.error))

\* unwrapResult
unwrapResult(operation, result) ==
  IF result.data.type # "undefined" /\ result.error.type = "undefined"
    THEN Returned(result.data)
    ELSE LET statusCode == IF result.response.def THEN result.response.val
                                                  ELSE 0
             detail == extractErrorDetail(result.error)
         IN Thrown(QuercleApiError(operation, statusCode, detail,
                                   result.error))

(***************************************************************************)
(* Inputs.                                                                 *)
(***************************************************************************)
KeyChars == {"k", " "}
UrlChars == {"u", "/"}
ApiKeys == Strs(KeyChars, MaxKeyLen)
BaseUrls == Strs(UrlChars, MaxUrlLen)
Timeouts == {NoNum, Num(-1), Num(0), Num(100)}

EnvKeys == {NoStr, Str(<<"e">>), Str(<<" ">>)}
EnvUrls == {NoStr, Str(<<"v">>)}
Envs == [QUERCLE_API_KEY : EnvKeys, QUERCLE_BASE_URL : EnvUrls]

AllConfigs ==
  [apiKey : Opt(ApiKeys), baseUrl : Opt(BaseUrls), timeout : Timeouts,
   hasClient : {FALSE}]
  \cup
  [apiKey : {NoStr}, baseUrl : {NoStr}, timeout : {NoNum}, hasClient : {TRUE}]

NoConfig ==
  [apiKey |-> NoStr, baseUrl |-> NoStr, timeout |-> NoNum, hasClient |-> FALSE]

NoCtor ==
  [kind |-> "none", config |-> NoConfig,
   env |-> [QUERCLE_API_KEY |-> NoStr, QUERCLE_BASE_URL |-> NoStr],
   threw |-> FALSE, error |-> NoError]

\* Configurations of the runs that send requests.
CallConfigs ==
  [apiKey : Opt({<<"k">>, <<" ", "k", " ">>, <<" ">>}),
   baseUrl : Opt({<<"u">>, <<"u", "/">>, <<"u", "/", "/">>}),
   timeout : {NoNum, Num(0), Num(100)},
   hasClient : {FALSE}]

\* Configurations of the runs that receive responses.
RunConfigs ==
  [apiKey : {NoStr, Str(<<"k">>)}, baseUrl : {NoStr},
   timeout : {NoNum, Num(100)}, hasClient : {FALSE}]

RunEnvs == {[QUERCLE_API_KEY |-> NoStr, QUERCLE_BASE_URL |-> NoStr]}

\* Environments of the runs that send requests.
RequestEnvs ==
  {[QUERCLE_API_KEY |-> NoStr, QUERCLE_BASE_URL |-> NoStr],
   [QUERCLE_API_KEY |-> Str(<<"e">>), QUERCLE_BASE_URL |-> Str(<<"v">>)]}

Urls == {<<"https:", "/", "/", "example.com">>}
Prompts == {<<"Summarize">>}
Queries == {<<"q1">>, <<"q2">>}
Domains == {"a.com", "b.org"}
DomainLists == Strs(Domains, MaxDomains)
OptArr(S) == {NoArr} \cup {Arr(a) : a \in S}

NoOptions ==
  [allowedDomains |-> NoArr, blockedDomains |-> NoArr, timeoutMs |-> NoNum,
   format |-> NoStr, useSafeguard |-> NoBool]

\* Options of the hand-written client's search: it has no per-call timeout.
SearchOptions ==
  [allowedDomains : OptArr(DomainLists), blockedDomains : OptArr(DomainLists),
   timeoutMs : {NoNum}, format : {NoStr}, useSafeguard : {NoBool}]

\* Options of the generated-transport client's search.
SdkSearchOptions ==
  [allowedDomains : OptArr(DomainLists), blockedDomains : OptArr(DomainLists),
   timeoutMs : {NoNum, Num(0), Num(100)}, format : {NoStr},
   useSafeguard : {NoBool}]

Formats == {<<>>, <<"markdown">>, <<"html">>}

\* Options of rawFetch, rawSearch and extract.
RawOptions ==
  [allowedDomains : {NoArr}, blockedDomains : {NoArr},
   timeoutMs : {NoNum, Num(100)}, format : Opt(Formats),
   useSafeguard : {NoBool, Bool(TRUE), Bool(FALSE)}]

RunOptions ==
  {NoOptions,
   [NoOptions EXCEPT !.allowedDomains = Arr(<<"a.com", "b.org">>)],
   [NoOptions EXCEPT !.blockedDomains = Arr(<<>>), !.timeoutMs = Num(100)]}

Statuses == {200, 201, 400, 401, 402, 403, 404, 500, 504}
StatusTexts == {<<"Status Text">>}

FieldValues == {Absent, JsonNull, JsonString(<<>>), JsonString(<<"X">>)}
ResultValues == FieldValues \cup {JsonNumber}

\* Bodies a server sends: values response.json() can yield.
Bodies ==
  {JObject(r, Absent, Absent, x) : r \in ResultValues, x \in BOOLEAN}
  \cup {JObject(Absent, d, m, FALSE) :
          d \in {Absent, JsonNull, JsonString(<<"Invalid API key">>)},
          m \in {Absent, JsonString(<<"msg">>)}}
  \cup {JStr(<<"X">>), JNull, JNum, JArray}

FailureMessages == {<<"fetch failed">>, <<"ECONNREFUSED">>}

\* Results the generated operations hand back.
OperationResults ==
  [data : {JUndefined, JNull,
           JObject(JsonString(<<"X">>), Absent, Absent, FALSE)},
   error : {JUndefined, JStr(<<"boom">>), JStr(<<" ">>),
            JObject(Absent, JsonString(<<"Invalid API key">>), Absent, FALSE),
            JObject(Absent, Absent, JsonString(<<"msg">>), FALSE)},
   response : {NoNum, Num(200), Num(401)}]

\* Call slots: each holds one call of search or fetch and the request made
\* for it.  Sequential runs use the first slot, concurrent runs both.
Calls == {1, 2}
OneCall == {1}

\* signal is the state of init.signal when the transport call begins.
NoArgs ==
  [url |-> <<>>, prompt |-> <<>>, query |-> <<>>, options |-> NoOptions,
   signal |-> "none"]

NoReq ==
  [url |-> <<>>, method |-> "", contentType |-> <<>>, apiKey |-> NoStr,
   body |-> <<>>]

\* The operation result of a call that has none (yet).
NoResult == [data |-> JUndefined, error |-> JUndefined, response |-> NoNum]

\* A call: timer is the pending setTimeout, aborted is
\* controller.signal.aborted, failure the message of the error fetch rejected
\* with, resp the response received, prior the kind of outcome of the call
\* that held the slot before.  attempts counts the invocations of the
\* transport; upstream is the signal that came with the transport call
\* (init.signal: "none", "live" or "aborted") and listener tells whether
\* onAbort is registered on it; result is the operation result handed to
\* unwrapResult.
NoCall ==
  [pc |-> "idle", kind |-> "none", op |-> "", args |-> NoArgs, req |-> NoReq,
   timeout |-> NoNum, timer |-> FALSE, aborted |-> FALSE, failure |-> NoStr,
   resp |-> NoResp, outcome |-> NoOutcome, prior |-> "none", attempts |-> 0,
   upstream |-> "none", listener |-> FALSE, result |-> NoResult]

(***************************************************************************)
(* Construction of the client under study.  ctor records the constructor  *)
(* call: its arguments, the environment it read and whether it threw.  A  *)
(* constructor that throws returns no instance: client stays NoClient.    *)
(***************************************************************************)
Construct(kind, config) ==
  LET r == IF kind = "legacy" THEN LegacyConstructor(config, env)
                              ELSE SdkConstructor(config, env)
  IN /\ ctor.kind = "none"
     /\ (config.hasClient => kind = "sdk")
     /\ ctor' = [kind |-> kind, config |-> config, env |-> env,
                 threw |-> r.threw, error |-> r.error]
     /\ client' = IF r.threw THEN NoClient ELSE r.client
     /\ UNCHANGED <<env, calls>>

ConstructLegacy == \E config \in AllConfigs : Construct("legacy", config)

ConstructSdk == \E config \in AllConfigs : Construct("sdk", config)

\* The program around the client assigns or deletes the environment's
\* variables (process.env.QUERCLE_API_KEY = ..., delete process.env...).
SetEnv(e) ==
  /\ e # env
  /\ env' = e
  /\ UNCHANGED <<client, ctor, calls>>

(***************************************************************************)
(* Calls of the hand-written client.                                       *)
(* pc: "idle", "awaiting" (await fetch(...)), "reading" (await              *)
(* response.json()), "settled".                                            *)
(***************************************************************************)
\* the path of fetch without its first segment
ENDPOINT_FETCH_v1 == <<"/", "v1", "/", "fetch">>
ENDPOINT_FETCH == <<"/", "api", "/", "v1", "/", "fetch">>
ENDPOINT_SEARCH == <<"/", "api", "/", "v1", "/", "search">>

\* A request that resolves the key again when it is made.
request_rereadKey(endpoint, body) ==
  [url |-> client.baseUrl \o endpoint,
   method |-> "POST",
   contentType |-> <<"application", "/", "json">>,
   apiKey |-> Str(trim(Nullish(ctor.config.apiKey, env.QUERCLE_API_KEY).val)),
   body |-> JSONstringify(body)]

\* QuercleClient.request up to the await of fetch: the timer is set, the
\* request is handed to the transport.
request(endpoint, body) ==
  [url |-> client.baseUrl \o endpoint,
   method |-> "POST",
   contentType |-> <<"application", "/", "json">>,
   apiKey |-> Str(client.apiKey),
   body |-> JSONstringify(body)]

CanStart(c, kind) ==
  /\ client.kind = kind
  /\ calls[c].pc \in {"idle", "settled"}

\* The call a facade method starts: the timer is set and the transport is
\* invoked, once.
NewCall(c, kind, op, args, req, timeout) ==
  [pc |-> "awaiting", kind |-> kind, op |-> op, args |-> args,
   req |-> req, timeout |-> timeout, timer |-> timeout.def,
   aborted |-> FALSE, failure |-> NoStr, resp |-> NoResp,
   outcome |-> NoOutcome, prior |-> calls[c].outcome.kind, attempts |-> 1,
   upstream |-> "none", listener |-> FALSE, result |-> NoResult]

Begin(c, kind, op, args, req, timeout) ==
  calls' = [calls EXCEPT ![c] = NewCall(c, kind, op, args, req, timeout)]

\* QuercleClient.fetch
Fetch(c, url, prompt) ==
  /\ CanStart(c, "legacy")
  /\ Begin(c, "legacy", "fetch",
           [NoArgs EXCEPT !.url = url, !.prompt = prompt],
           request(ENDPOINT_FETCH, LegacyFetchBody(url, prompt)),
           client.timeout)
  /\ UNCHANGED <<env, client, ctor>>

\* QuercleClient.search
Search(c, query, options) ==
  /\ CanStart(c, "legacy")
  /\ Begin(c, "legacy", "search",
           [NoArgs EXCEPT !.query = query, !.options = options],
           request(ENDPOINT_SEARCH, LegacySearchBody(query, options)),
           client.timeout)
  /\ UNCHANGED <<env, client, ctor>>

\* A request that invokes the transport again after a non-2xx response.
Receive_retrying(c, status, statusText) ==
  /\ calls[c].kind = "legacy"
  /\ calls[c].pc = "awaiting"
  /\ calls' = IF ~ok(status) /\ calls[c].attempts = 1
                THEN [calls EXCEPT ![c].attempts = 2]
                ELSE [calls EXCEPT ![c].pc = "reading",
                                   ![c].timer = FALSE,
                                   ![c].resp =
                                      [NoResp EXCEPT
                                         !.status = status,
                                         !.statusText = statusText]]
  /\ UNCHANGED <<env, client, ctor>>

\* fetch resolves with a response: clearTimeout(timeoutId).
Receive(c, status, statusText) ==
  /\ calls[c].kind = "legacy"
  /\ calls[c].pc = "awaiting"
  /\ calls' = [calls EXCEPT ![c].pc = "reading",
                            ![c].timer = FALSE,
                            ![c].resp = [NoResp EXCEPT !.status = status,
                                                       !.statusText = statusText]]
  /\ UNCHANGED <<env, client, ctor>>

\* A body that is still taken after the call has settled.
ReadBody_late(c, parsable, body) ==
  /\ calls[c].kind = "legacy"
  /\ calls[c].pc \in {"reading", "settled"}
  /\ calls[c].resp.status # 0
  /\ LET response == [calls[c].resp EXCEPT !.parsable = parsable,
                                           !.body = IF parsable THEN body
                                                                ELSE JUndefined]
     IN calls' = [calls EXCEPT ![c].pc = "settled",
                               ![c].resp = response,
                               ![c].outcome =
                                  unwrapLegacy(requestOnResponse(response))]
  /\ UNCHANGED <<env, client, ctor>>

\* response.json() settles, in handleError or in request; the facade then
\* validates what request returned.
ReadBody(c, parsable, body) ==
  /\ calls[c].kind = "legacy"
  /\ calls[c].pc = "reading"
  /\ LET response == [calls[c].resp EXCEPT !.parsable = parsable,
                                           !.body = IF parsable THEN body
                                                                ELSE JUndefined]
     IN calls' = [calls EXCEPT ![c].pc = "settled",
                               ![c].resp = response,
                               ![c].outcome =
                                  unwrapLegacy(requestOnResponse(response))]
  /\ UNCHANGED <<env, client, ctor>>

\* A timer that aborts through a controller shared by the calls in flight.
TimerFire_shared(c) ==
  /\ calls[c].kind = "legacy"
  /\ calls[c].pc = "awaiting"
  /\ calls[c].timer
  /\ calls' = [d \in Calls |->
                IF calls[d].kind = "legacy" /\ calls[d].pc = "awaiting"
                  THEN [calls[d] EXCEPT
                          !.pc = "settled",
                          !.timer = FALSE,
                          !.aborted = TRUE,
                          !.outcome =
                             unwrapLegacy(Thrown(requestCatch(AbortError)))]
                  ELSE calls[d]]
  /\ UNCHANGED <<env, client, ctor>>

\* The timer fires while fetch is pending: controller.abort() makes fetch
\* reject with an AbortError.
TimerFire(c) ==
  /\ calls[c].kind = "legacy"
  /\ calls[c].pc = "awaiting"
  /\ calls[c].timer
  /\ calls' = [calls EXCEPT ![c].pc = "settled",
                            ![c].timer = FALSE,
                            ![c].aborted = TRUE,
                            ![c].outcome =
                               unwrapLegacy(Thrown(requestCatch(AbortError)))]
  /\ UNCHANGED <<env, client, ctor>>

\* A rejection of fetch taken for the abort of the request.
TransportFail_asAbort(c, message) ==
  /\ calls[c].kind = "legacy"
  /\ calls[c].pc = "awaiting"
  /\ calls' = [calls EXCEPT ![c].pc = "settled",
                            ![c].timer = FALSE,
                            ![c].failure = Str(message),
                            ![c].outcome =
                               unwrapLegacy(Thrown(requestCatch(AbortError)))]
  /\ UNCHANGED <<env, client, ctor>>

\* fetch rejects without a response (connection refused, DNS failure).
TransportFail(c, message) ==
  /\ calls[c].kind = "legacy"
  /\ calls[c].pc = "awaiting"
  /\ calls' = [calls EXCEPT ![c].pc = "settled",
                            ![c].timer = FALSE,
                            ![c].failure = Str(message),
                            ![c].outcome =
                               unwrapLegacy(Thrown(requestCatch(
                                                     TypeError(message))))]
  /\ UNCHANGED <<env, client, ctor>>

(***************************************************************************)
(* Calls of the client on the generated transport.  The operation          *)
(* (fetchOperation, searchOperation) sends the body it is given and hands  *)
(* back an operation result.                                               *)
(***************************************************************************)
\* The signals a transport call can come with (init?.signal).
Upstreams == {"none", "live", "aborted"}

\* createTimeoutFetch that never listens to the upstream signal.
createTimeoutFetch_deaf(call, upstream) ==
  IF ~call.timeout.def
    THEN [call EXCEPT !.upstream = upstream,
                      !.aborted = (upstream = "aborted")]
    ELSE [call EXCEPT !.upstream = upstream,
                      !.aborted = (upstream = "aborted"),
                      !.timer = TRUE]

\* createTimeoutFetch up to the await of fetchImpl.  Without a per-call
\* timeout the transport gets the upstream signal itself; with one it gets
\* the signal of a new controller, aborted at once if the upstream signal
\* already is, else tied to it by the listener onAbort, and the timer is set.
createTimeoutFetch(call, upstream) ==
  IF ~call.timeout.def
    THEN [call EXCEPT !.upstream = upstream,
                      !.aborted = (upstream = "aborted")]
    ELSE [call EXCEPT !.upstream = upstream,
                      !.aborted = (upstream = "aborted"),
                      !.listener = (upstream = "live"),
                      !.timer = TRUE]

BeginSdk(c, op, args, body, upstream) ==
  calls' = [calls EXCEPT ![c] =
              createTimeoutFetch(
                NewCall(c, "sdk", op, [args EXCEPT !.signal = upstream],
                        [NoReq EXCEPT !.body = body],
                        resolveCallFetch(args.options.timeoutMs)),
                upstream)]

\* QuercleClient.fetch
SdkFetch(c, url, prompt, options, upstream) ==
  /\ CanStart(c, "sdk")
  /\ BeginSdk(c, "fetch",
              [NoArgs EXCEPT !.url = url, !.prompt = prompt,
                             !.options = options],
              SdkFetchBody(url, prompt), upstream)
  /\ UNCHANGED <<env, client, ctor>>

\* QuercleClient.search
SdkSearch(c, query, options, upstream) ==
  /\ CanStart(c, "sdk")
  /\ BeginSdk(c, "search",
              [NoArgs EXCEPT !.query = query, !.options = options],
              SdkSearchBody(query, options), upstream)
  /\ UNCHANGED <<env, client, ctor>>

\* QuercleClient.rawFetch
SdkRawFetch(c, url, options, upstream) ==
  /\ CanStart(c, "sdk")
  /\ BeginSdk(c, "raw_fetch",
              [NoArgs EXCEPT !.url = url, !.options = options],
              SdkRawFetchBody(url, options), upstream)
  /\ UNCHANGED <<env, client, ctor>>

\* QuercleClient.rawSearch
SdkRawSearch(c, query, options, upstream) ==
  /\ CanStart(c, "sdk")
  /\ BeginSdk(c, "raw_search",
              [NoArgs EXCEPT !.query = query, !.options = options],
              SdkRawSearchBody(query, options), upstream)
  /\ UNCHANGED <<env, client, ctor>>

\* QuercleClient.extract
SdkExtract(c, url, query, options, upstream) ==
  /\ CanStart(c, "sdk")
  /\ BeginSdk(c, "extract",
              [NoArgs EXCEPT !.url = url, !.query = query,
                             !.options = options],
              SdkExtractBody(url, query, options), upstream)
  /\ UNCHANGED <<env, client, ctor>>

\* The timer of createTimeoutFetch fires while fetchImpl is pending:
\* controller.abort().
SdkTimerFire(c) ==
  /\ calls[c].kind = "sdk"
  /\ calls[c].pc = "awaiting"
  /\ calls[c].timer
  /\ calls' = [calls EXCEPT ![c].timer = FALSE, ![c].aborted = TRUE]
  /\ UNCHANGED <<env, client, ctor>>

\* The upstream signal fires: onAbort runs if it is registered (once).
\* Without the timeout wrapper the transport holds the upstream signal.
UpstreamAbort(c) ==
  /\ calls[c].kind = "sdk"
  /\ calls[c].upstream = "live"
  /\ calls' = [calls EXCEPT
                 ![c].upstream = "aborted",
                 ![c].listener = FALSE,
                 ![c].aborted =
                    \/ @
                    \/ calls[c].listener
                    \/ (~calls[c].timeout.def /\ calls[c].pc = "awaiting")]
  /\ UNCHANGED <<env, client, ctor>>

\* A transport that honours its signal rejects once the signal is aborted:
\* the operation then has neither data nor response.
Rejected(result) ==
  /\ result.data = JUndefined
  /\ result.error # JUndefined
  /\ ~result.response.def

\* The operation settling without the finally block of createTimeoutFetch.
SdkSettle_noFinally(c, result) ==
  /\ calls[c].kind = "sdk"
  /\ calls[c].pc = "awaiting"
  /\ calls[c].aborted => Rejected(result)
  /\ calls' = [calls EXCEPT ![c].pc = "settled",
                            ![c].resp =
                               [NoResp EXCEPT !.status =
                                  IF result.response.def
                                    THEN result.response.val ELSE 0],
                            ![c].result = result,
                            ![c].outcome = unwrapResult(calls[c].op, result)]
  /\ UNCHANGED <<env, client, ctor>>

\* fetchImpl settles (finally: clearTimeout, removeEventListener) and the
\* operation hands back its result; unwrapResult returns its data or throws.
SdkSettle(c, result) ==
  /\ calls[c].kind = "sdk"
  /\ calls[c].pc = "awaiting"
  /\ calls[c].aborted => Rejected(result)
  /\ calls' = [calls EXCEPT ![c].pc = "settled",
                            ![c].timer = FALSE,
                            ![c].listener = FALSE,
                            ![c].resp =
                               [NoResp EXCEPT !.status =
                                  IF result.response.def
                                    THEN result.response.val ELSE 0],
                            ![c].result = result,
                            ![c].outcome = unwrapResult(calls[c].op, result)]
  /\ UNCHANGED <<env, client, ctor>>

(***************************************************************************)
(* Specifications.                                                         *)
(***************************************************************************)
NoCalls == [c \in Calls |-> NoCall]

\* Construction alone, over every configuration and environment.
InitConfig ==
  /\ env \in Envs
  /\ client = NoClient
  /\ ctor = NoCtor
  /\ calls = NoCalls

NextConfig == ConstructLegacy \/ ConstructSdk

SpecConfig == InitConfig /\ [][NextConfig]_vars

\* Requests: construction and the start of a call, over every request body.
NewLegacyClient == \E config \in CallConfigs : Construct("legacy", config)

NewSdkClient == \E config \in CallConfigs : Construct("sdk", config)

SendFetch == \E c \in OneCall, url \in Urls, prompt \in Prompts :
  Fetch(c, url, prompt)

SendSearch == \E c \in OneCall, query \in Queries, options \in SearchOptions :
  Search(c, query, options)

SendSdkFetch == \E c \in OneCall, url \in Urls, prompt \in Prompts :
  \E timeoutMs \in {NoNum, Num(0), Num(100)} :
    SdkFetch(c, url, prompt, [NoOptions EXCEPT !.timeoutMs = timeoutMs],
             "none")

SendSdkSearch ==
  \E c \in OneCall, query \in Queries, options \in SdkSearchOptions :
    SdkSearch(c, query, options, "none")

SendRawFetch == \E c \in OneCall, url \in Urls, options \in RawOptions :
  SdkRawFetch(c, url, options, "none")

SendRawSearch == \E c \in OneCall, query \in Queries, options \in RawOptions :
  SdkRawSearch(c, query, options, "none")

SendExtract ==
  \E c \in OneCall, url \in Urls, query \in Queries, options \in RawOptions :
    SdkExtract(c, url, query, options, "none")

InitRequest ==
  /\ env \in RequestEnvs
  /\ client = NoClient
  /\ ctor = NoCtor
  /\ calls = NoCalls

NextRequest ==
  \/ NewLegacyClient
  \/ NewSdkClient
  \/ SendFetch
  \/ SendSearch
  \/ SendSdkFetch
  \/ SendSdkSearch
  \/ SendRawFetch
  \/ SendRawSearch
  \/ SendExtract

SpecRequest == InitRequest /\ [][NextRequest]_vars

\* Whole calls: construction, requests, responses, timeouts, failures.
LegacyClient == \E config \in RunConfigs : Construct("legacy", config)

SdkClient == \E config \in RunConfigs : Construct("sdk", config)

CallFetch == \E c \in OneCall, url \in Urls, prompt \in Prompts :
  Fetch(c, url, prompt)

CallSearch == \E c \in OneCall, query \in Queries, options \in RunOptions :
  Search(c, query, [options EXCEPT !.timeoutMs = NoNum])

CallSdkFetch == \E c \in OneCall, url \in Urls, prompt \in Prompts :
  \E options \in RunOptions, upstream \in Upstreams :
    SdkFetch(c, url, prompt,
             [NoOptions EXCEPT !.timeoutMs = options.timeoutMs], upstream)

CallSdkSearch == \E c \in OneCall, query \in Queries, options \in RunOptions :
  SdkSearch(c, query, options, "none")

SdkTimeoutFires == \E c \in OneCall : SdkTimerFire(c)

UpstreamAborts == \E c \in OneCall : UpstreamAbort(c)

ResponseArrives == \E c \in OneCall, status \in Statuses, text \in StatusTexts :
  Receive(c, status, text)

BodyRead == \E c \in OneCall, parsable \in BOOLEAN, body \in Bodies :
  ReadBody(c, parsable, body)

TimeoutFires == \E c \in OneCall : TimerFire(c)

TransportFails == \E c \in OneCall, message \in FailureMessages :
  TransportFail(c, message)

OperationSettles == \E c \in OneCall, result \in OperationResults :
  SdkSettle(c, result)

EnvChanges == \E e \in RequestEnvs : SetEnv(e)

Init ==
  /\ env \in RunEnvs
  /\ client = NoClient
  /\ ctor = NoCtor
  /\ calls = NoCalls

Next ==
  \/ LegacyClient
  \/ SdkClient
  \/ CallFetch
  \/ CallSearch
  \/ CallSdkFetch
  \/ CallSdkSearch
  \/ ResponseArrives
  \/ BodyRead
  \/ TimeoutFires
  \/ TransportFails
  \/ OperationSettles
  \/ SdkTimeoutFires
  \/ UpstreamAborts
  \/ EnvChanges

Spec == Init /\ [][Next]_vars

(***************************************************************************)
(* Two calls in flight on one client: both slots are used, every step of   *)
(* either call may come between two steps of the other.                    *)
(***************************************************************************)
PairConfig ==
  [apiKey |-> Str(<<"k">>), baseUrl |-> NoStr, timeout |-> Num(100),
   hasClient |-> FALSE]

PairBodies ==
  {JObject(JsonString(<<"X">>), Absent, Absent, FALSE),
   JObject(Absent, JsonString(<<"Invalid API key">>), Absent, FALSE),
   JObject(Absent, Absent, Absent, FALSE)}

PairResults ==
  {[data |-> JObject(JsonString(<<"X">>), Absent, Absent, FALSE),
    error |-> JUndefined, response |-> Num(200)],
   [data |-> JUndefined, error |-> JStr(<<"boom">>), response |-> Num(401)],
   [data |-> JUndefined, error |-> JUndefined, response |-> NoNum],
   [data |-> JUndefined,
    error |-> JObject(Absent, Absent,
                      JsonString(<<"The operation was aborted">>), FALSE),
    response |-> NoNum]}

PairLegacyClient == Construct("legacy", PairConfig)

PairSdkClient == Construct("sdk", PairConfig)

PairFetch == \E c \in Calls, url \in Urls, prompt \in Prompts :
  Fetch(c, url, prompt)

PairSearch == \E c \in Calls, query \in Queries : Search(c, query, NoOptions)

PairSdkSearch == \E c \in Calls, query \in Queries :
  SdkSearch(c, query, [NoOptions EXCEPT !.timeoutMs = Num(100)], "none")

PairSdkTimeout == \E c \in Calls : SdkTimerFire(c)

PairResponse == \E c \in Calls, status \in Statuses, text \in StatusTexts :
  Receive(c, status, text)

PairBody == \E c \in Calls, parsable \in BOOLEAN, body \in PairBodies :
  ReadBody(c, parsable, body)

PairTimeout == \E c \in Calls : TimerFire(c)

PairTransportFails == \E c \in Calls, message \in FailureMessages :
  TransportFail(c, message)

PairSettles == \E c \in Calls, result \in PairResults : SdkSettle(c, result)

InitPair ==
  /\ env \in RunEnvs
  /\ client = NoClient
  /\ ctor = NoCtor
  /\ calls = NoCalls

NextPair ==
  \/ PairLegacyClient
  \/ PairSdkClient
  \/ PairFetch
  \/ PairSearch
  \/ PairSdkSearch
  \/ PairResponse
  \/ PairBody
  \/ PairTimeout
  \/ PairTransportFails
  \/ PairSettles
  \/ PairSdkTimeout

SpecPair == InitPair /\ [][NextPair]_vars

(***************************************************************************)
(* Calls under fair scheduling.  A pending timer fires in the end          *)
(* (setTimeout), and a transport whose signal is aborted rejects in the    *)
(* end.  Nothing obliges the server: a response, or the rest of its body,  *)
(* may never come.                                                         *)
(***************************************************************************)
LiveStatuses == {200, 404, 500}

LiveLegacyClient == Construct("legacy", PairConfig)

LiveSdkClient == Construct("sdk", PairConfig)

LiveFetch == \E c \in OneCall, url \in Urls, prompt \in Prompts :
  Fetch(c, url, prompt)

LiveSdkFetch == \E c \in OneCall, url \in Urls, prompt \in Prompts :
  \E upstream \in Upstreams :
    SdkFetch(c, url, prompt, [NoOptions EXCEPT !.timeoutMs = Num(100)],
             upstream)

LiveResponse ==
  \E c \in OneCall, status \in LiveStatuses, text \in StatusTexts :
    Receive(c, status, text)

LiveBody == \E c \in OneCall, parsable \in BOOLEAN, body \in PairBodies :
  ReadBody(c, parsable, body)

LiveTimeout == \E c \in OneCall : TimerFire(c)

LiveTransportFails == \E c \in OneCall, message \in FailureMessages :
  TransportFail(c, message)

LiveSdkTimeout == \E c \in OneCall : SdkTimerFire(c)

LiveUpstreamAborts == \E c \in OneCall : UpstreamAbort(c)

LiveSettles == \E c \in OneCall, result \in PairResults : SdkSettle(c, result)

\* The rejection of a transport whose signal is aborted.
LiveAbortRejects ==
  \E c \in OneCall, result \in PairResults :
    calls[c].aborted /\ SdkSettle(c, result)

NextLive ==
  \/ LiveLegacyClient
  \/ LiveSdkClient
  \/ LiveFetch
  \/ LiveSdkFetch
  \/ LiveResponse
  \/ LiveBody
  \/ LiveTimeout
  \/ LiveTransportFails
  \/ LiveSdkTimeout
  \/ LiveUpstreamAborts
  \/ LiveSettles

Fairness ==
  /\ WF_vars(LiveTimeout)
  /\ WF_vars(LiveSdkTimeout)
  /\ WF_vars(LiveAbortRejects)

SpecLive == InitPair /\ [][NextLive]_vars /\ Fairness

(***************************************************************************)
(* Properties.                                                             *)
(***************************************************************************)
\* The key the constructor resolves: the option, else the environment.
KeyInput == Nullish(ctor.config.apiKey, ctor.env.QUERCLE_API_KEY)

Constructed == ctor.kind # "none" /\ ~ctor.config.hasClient

Started(c) == calls[c].pc # "idle"

LegacyCall(c) == calls[c].kind = "legacy" /\ Started(c)

\* C1: construction succeeds exactly for the keys that are non-empty after
\* trimming; for an empty, whitespace-only or absent key it throws an
\* AuthenticationError (statusCode 401) and returns no instance.
C1_ConstructionChecksKey ==
  Constructed =>
    IF KeyInput.def /\ trim(KeyInput.val) # <<>>
      THEN ~ctor.threw /\ client.kind = ctor.kind
      ELSE /\ ctor.threw
           /\ client = NoClient
           /\ ctor.error.name = "AuthenticationError"
           /\ "AuthenticationError" \in ctor.error.classes
           /\ ctor.error.statusCode = Num(401)

\* The base URL the precedence rule gives: option, else QUERCLE_BASE_URL,
\* else the default of the client.
BaseUrlByPrecedence ==
  Nullish(Nullish(ctor.config.baseUrl, ctor.env.QUERCLE_BASE_URL),
          Str(IF ctor.kind = "legacy" THEN DEFAULT_BASE_URL
                                      ELSE SDK_DEFAULT_BASE_URL)).val

\* C2: apiKey and baseUrl resolve to the constructor option when supplied,
\* else to the environment variable when set, else (baseUrl) to the
\* default; trimming the key and stripping the slash aside.
C2_OptionEnvDefault ==
  (Constructed /\ ~ctor.threw) =>
    /\ client.apiKey \in {KeyInput.val, trim(KeyInput.val)}
    /\ client.baseUrl \in {BaseUrlByPrecedence,
                           stripTrailingSlash(BaseUrlByPrecedence)}

\* C3: every request of a fetch or search call carries Content-Type
\* application/json and an X-API-Key equal to the trimmed key resolved at
\* construction, which is never empty and never untrimmed.
C3_RequestHeaders ==
  \A c \in Calls :
    LegacyCall(c) =>
      /\ calls[c].req.method = "POST"
      /\ calls[c].req.contentType = <<"application", "/", "json">>
      /\ calls[c].req.apiKey.def
      /\ calls[c].req.apiKey.val = trim(KeyInput.val)
      /\ calls[c].req.apiKey.val # <<>>
      /\ ~IsWhitespace(Head(calls[c].req.apiKey.val))
      /\ ~IsWhitespace(calls[c].req.apiKey.val[Len(calls[c].req.apiKey.val)])

C3_Witness ==
  \E c \in Calls :
    /\ LegacyCall(c)
    /\ ctor.config.apiKey = Str(<<" ", "k", " ">>)
    /\ calls[c].req.apiKey = Str(<<"k">>)

\* The base URL handed to the hand-written client, or its default.
BaseUrlInput == Nullish(ctor.config.baseUrl, Str(DEFAULT_BASE_URL)).val

EndpointOf(c) ==
  IF calls[c].op = "fetch" THEN ENDPOINT_FETCH ELSE ENDPOINT_SEARCH

\* C4 as stated: the stored baseUrl never ends with "/", so a request URL is
\* the baseUrl and the endpoint path with exactly one "/" between them.
C4_NeverEndsWithSlash ==
  /\ client.kind = "legacy" => ~EndsWithSlash(client.baseUrl)
  /\ \A c \in Calls :
       LegacyCall(c) =>
         /\ calls[c].req.url = client.baseUrl \o EndpointOf(c)
         /\ ~EndsWithSlash(client.baseUrl)

\* C4: the stored baseUrl is the given one with a single trailing "/"
\* removed when it has one; it still ends with "/" only when the given one
\* ended with two or more; a request URL is the stored baseUrl followed by
\* the endpoint path.
C4_OneSlashStripped ==
  /\ client.kind = "legacy" =>
       /\ BaseUrlInput \in {client.baseUrl, client.baseUrl \o <<"/">>}
       /\ ~EndsWithSlash(BaseUrlInput) => client.baseUrl = BaseUrlInput
       /\ EndsWithSlash(BaseUrlInput) =>
            BaseUrlInput = client.baseUrl \o <<"/">>
  /\ \A c \in Calls :
       LegacyCall(c) =>
         /\ calls[c].req.url = client.baseUrl \o EndpointOf(c)
         /\ Head(EndpointOf(c)) = "/"
         /\ EndpointOf(c)[2] # "/"

C4_Witness ==
  \E c \in Calls :
    /\ LegacyCall(c)
    /\ ctor.config.baseUrl = Str(<<"u", "/">>)
    /\ calls[c].req.url = <<"u">> \o ENDPOINT_SEARCH

\* The timeout the caller supplied for a call: the constructor option of the
\* hand-written client, the per-call option of the other.
TimeoutInput(c) ==
  IF calls[c].kind = "legacy" THEN ctor.config.timeout
                              ELSE calls[c].args.options.timeoutMs

\* C5: the timeout applied to each call is a positive integer: the supplied
\* one when given, otherwise 120000; no call runs without a timeout or with
\* a zero or negative one.
C5_PositiveTimeout ==
  \A c \in Calls :
    Started(c) =>
      /\ calls[c].timeout.def
      /\ calls[c].timeout.val > 0
      /\ calls[c].timeout = Nullish(TimeoutInput(c), Num(120000))

SearchCall(c) == calls[c].op = "search" /\ Started(c)

\* C6: the body of a search holds allowed_domains (blocked_domains) only if
\* the option was supplied as a non-empty array; it is never written as [].
C6_EmptyDomainsOmitted ==
  \A c \in Calls :
    SearchCall(c) =>
      /\ HasField(calls[c].req.body, "allowed_domains") =>
           /\ calls[c].args.options.allowedDomains.def
           /\ calls[c].args.options.allowedDomains.val # <<>>
           /\ FieldOf(calls[c].req.body, "allowed_domains").a # <<>>
      /\ HasField(calls[c].req.body, "blocked_domains") =>
           /\ calls[c].args.options.blockedDomains.def
           /\ calls[c].args.options.blockedDomains.val # <<>>
           /\ FieldOf(calls[c].req.body, "blocked_domains").a # <<>>

\* C7: in the body of a search with a non-empty allowedDomains or
\* blockedDomains, allowed_domains / blocked_domains is the supplied array,
\* same elements in the same order, and query is the supplied query.
C7_DomainsVerbatim ==
  \A c \in Calls :
    SearchCall(c) =>
      LET body == calls[c].req.body
          options == calls[c].args.options
      IN /\ HasField(body, "query")
         /\ FieldOf(body, "query") = StrValue(calls[c].args.query)
         /\ (options.allowedDomains.def /\ options.allowedDomains.val # <<>>) =>
              /\ HasField(body, "allowed_domains")
              /\ FieldOf(body, "allowed_domains")
                   = ArrValue(options.allowedDomains.val)
         /\ (options.blockedDomains.def /\ options.blockedDomains.val # <<>>) =>
              /\ HasField(body, "blocked_domains")
              /\ FieldOf(body, "blocked_domains")
                   = ArrValue(options.blockedDomains.val)

C7_Witness ==
  \E c \in Calls :
    /\ SearchCall(c)
    /\ calls[c].kind = "legacy"
    /\ calls[c].args.options.allowedDomains = Arr(<<"b.org", "a.com">>)
    /\ calls[c].args.options.blockedDomains = Arr(<<"a.com">>)
    /\ FieldOf(calls[c].req.body, "allowed_domains")
         = ArrValue(<<"b.org", "a.com">>)
    /\ FieldOf(calls[c].req.body, "blocked_domains") = ArrValue(<<"a.com">>)

LegacySettled(c) == calls[c].kind = "legacy" /\ calls[c].pc = "settled"

\* A 2xx response whose body decodes to an object with a string result.
GotResult(c) ==
  /\ LegacySettled(c)
  /\ ok(calls[c].resp.status)
  /\ calls[c].resp.parsable
  /\ calls[c].resp.body.type = "object"
  /\ calls[c].resp.body.result.t = "str"

\* A 2xx response whose body decodes, but not to such an object.
GotInvalid(c) ==
  /\ LegacySettled(c)
  /\ ok(calls[c].resp.status)
  /\ calls[c].resp.parsable
  /\ ~(calls[c].resp.body.type = "object"
       /\ calls[c].resp.body.result.t = "str")

\* C8: a call whose response is 2xx with body {"result": X} resolves to
\* exactly the string X, for every X, the empty string included.
C8_ResultUnwrapped ==
  \A c \in Calls :
    GotResult(c) =>
      /\ calls[c].outcome.kind = "value"
      /\ calls[c].outcome.value = JStr(calls[c].resp.body.result.s)

C8_Witness ==
  \E c \in Calls :
    /\ GotResult(c)
    /\ calls[c].resp.body.result = JsonString(<<>>)
    /\ calls[c].outcome = Returned(JStr(<<>>))

\* C9: a call whose 2xx response decodes to a body without a string result
\* rejects with "Invalid response from API", statusCode 500, whatever other
\* fields the body has; it never resolves.
C9_InvalidResponse ==
  \A c \in Calls :
    GotInvalid(c) =>
      /\ calls[c].outcome.kind = "error"
      /\ calls[c].outcome.error.message = <<"Invalid response from API">>
      /\ calls[c].outcome.error.statusCode = Num(500)
      /\ "QuercleError" \in calls[c].outcome.error.classes

C9_Witness ==
  \E c \in Calls :
    /\ GotInvalid(c)
    /\ calls[c].resp.body.type = "object"
    /\ calls[c].resp.body.result.t = "absent"
    /\ calls[c].resp.body.extra
    /\ calls[c].outcome.error.statusCode = Num(500)

\* The detail string the server sent in the body of a response.
SentDetail(c) ==
  /\ calls[c].resp.parsable
  /\ calls[c].resp.body.type = "object"
  /\ calls[c].resp.body.detail.t = "str"

ErrorClassOf(status) ==
  CASE status = 401 -> "AuthenticationError"
    [] status = 402 -> "InsufficientCreditsError"
    [] status = 504 -> "TimeoutError"

\* C10: a call whose response has status 401, 402 or 504 rejects with
\* AuthenticationError, InsufficientCreditsError or TimeoutError, with that
\* statusCode, its name the class name, its detail the detail string the
\* server sent.
C10_DedicatedErrors ==
  \A c \in Calls :
    (LegacySettled(c) /\ calls[c].resp.status \in {401, 402, 504}) =>
      LET error == calls[c].outcome.error
      IN /\ calls[c].outcome.kind = "error"
         /\ error.name = ErrorClassOf(calls[c].resp.status)
         /\ ErrorClassOf(calls[c].resp.status) \in error.classes
         /\ "QuercleError" \in error.classes
         /\ error.statusCode = Num(calls[c].resp.status)
         /\ SentDetail(c) => error.detail = Str(calls[c].resp.body.detail.s)

C10_Witness ==
  \E c \in Calls :
    /\ LegacySettled(c)
    /\ calls[c].resp.status = 504
    /\ SentDetail(c)
    /\ calls[c].outcome.error.name = "TimeoutError"
    /\ calls[c].outcome.error.detail = Str(<<"Invalid API key">>)

\* A settled call of the hand-written client that received a response.
GotStatus(c, status) == LegacySettled(c) /\ calls[c].resp.status = status

\* C11: a response with status 403 makes the call reject with an
\* InactiveAccountError: statusCode 403 and the message "Account is inactive.
\* Contact support at https://quercle.dev".
C11_InactiveAccount ==
  \A c \in Calls :
    GotStatus(c, 403) =>
      /\ calls[c].outcome.kind = "error"
      /\ calls[c].outcome.error.name = "InactiveAccountError"
      /\ "InactiveAccountError" \in calls[c].outcome.error.classes
      /\ calls[c].outcome.error.statusCode = Num(403)
      /\ calls[c].outcome.error.message = InactiveAccountError(NoStr).message

\* C12: a response with status 404 makes the call reject with a
\* NotFoundError: statusCode 404 and the message "Resource not found".
C12_NotFound ==
  \A c \in Calls :
    GotStatus(c, 404) =>
      /\ calls[c].outcome.kind = "error"
      /\ calls[c].outcome.error.name = "NotFoundError"
      /\ "NotFoundError" \in calls[c].outcome.error.classes
      /\ calls[c].outcome.error.statusCode = Num(404)
      /\ calls[c].outcome.error.message = NotFoundError(NoStr).message

\* A settled call of the hand-written client whose response was not 2xx.
GotFailure(c) ==
  /\ LegacySettled(c)
  /\ calls[c].resp.status # 0
  /\ ~ok(calls[c].resp.status)

\* The statuses the error taxonomy gives a kind of their own.
DedicatedStatuses == {401, 402, 403, 404, 504}

\* C13: every response with a non-2xx status s makes the call reject, never
\* resolve, with one error that is a QuercleError and whose statusCode is s; a
\* status without a kind of its own yields the base QuercleError; two calls
\* that received the same status and body reject with the same kind of error.
C13_StatusMapping ==
  /\ \A c \in Calls :
       GotFailure(c) =>
         /\ calls[c].outcome.kind = "error"
         /\ calls[c].outcome.value = JUndefined
         /\ "QuercleError" \in calls[c].outcome.error.classes
         /\ calls[c].outcome.error.statusCode = Num(calls[c].resp.status)
         /\ calls[c].resp.status \notin DedicatedStatuses =>
              /\ calls[c].outcome.error.name = "QuercleError"
              /\ calls[c].outcome.error.classes = {"Error", "QuercleError"}
  /\ \A c, d \in Calls :
       (GotFailure(c) /\ GotFailure(d) /\ calls[c].resp = calls[d].resp) =>
         /\ calls[c].outcome.error.name = calls[d].outcome.error.name
         /\ calls[c].outcome.error.classes = calls[d].outcome.error.classes

C13_Witness ==
  \E c, d \in Calls :
    /\ c # d
    /\ GotFailure(c) /\ GotFailure(d)
    /\ calls[c].resp = calls[d].resp
    /\ calls[c].resp.status = 500
    /\ calls[c].op # calls[d].op
    /\ calls[c].outcome.error.statusCode = Num(500)
    /\ calls[d].outcome.error.name = "QuercleError"

\* s holds t as a run of consecutive tokens.
Contains(s, t) ==
  \E i \in 0..(Len(s) - Len(t)) : SubSeq(s, i + 1, i + Len(t)) = t

NETWORK_ERROR == <<"Network error: ">>

StartsWith(s, t) == Len(s) >= Len(t) /\ SubSeq(s, 1, Len(t)) = t

\* C14: a call whose timer fires before any response is aborted and rejects
\* with a TimeoutError, statusCode 504, without detail; it has taken no
\* response, awaits none, and its error is not a network error.
C14_TimeoutRejects ==
  \A c \in Calls :
    (calls[c].kind = "legacy" /\ calls[c].aborted) =>
      /\ calls[c].pc = "settled"
      /\ calls[c].resp = NoResp
      /\ ~calls[c].timer
      /\ calls[c].outcome.kind = "error"
      /\ calls[c].outcome.error.name = "TimeoutError"
      /\ "TimeoutError" \in calls[c].outcome.error.classes
      /\ calls[c].outcome.error.statusCode = Num(504)
      /\ calls[c].outcome.error.detail = NoStr
      /\ ~StartsWith(calls[c].outcome.error.message, NETWORK_ERROR)

C14_Witness ==
  \E c \in Calls :
    /\ calls[c].kind = "legacy"
    /\ calls[c].aborted
    /\ calls[c].timeout = Num(100)
    /\ calls[c].outcome.error.name = "TimeoutError"

\* A call of the hand-written client whose transport failed: no response,
\* no abort.
TransportFailed(c) ==
  /\ LegacySettled(c)
  /\ calls[c].failure.def
  /\ ~calls[c].aborted

IsQuercleError(error) ==
  "QuercleError" \in error.classes /\ error.statusCode.def

\* C16: every error a caller observes, thrown by a constructor or rejecting
\* a call of fetch or search, is an instance of QuercleError and carries a
\* numeric statusCode.
C16_AllErrorsQuercle ==
  /\ ctor.threw => IsQuercleError(ctor.error)
  /\ \A c \in Calls :
       calls[c].outcome.kind = "error" => IsQuercleError(calls[c].outcome.error)

\* A settled call, of either client, that received a response.
GotResponse(c) == calls[c].pc = "settled" /\ calls[c].resp.status # 0

\* C17: an error's statusCode is 0 only when the transport failed without a
\* response: a call that received a response, of any status, a 2xx response
\* with an undecodable body included, never rejects with statusCode 0.
C17_ZeroOnlyWithoutResponse ==
  \A c \in Calls :
    (GotResponse(c) /\ calls[c].outcome.kind = "error") =>
      calls[c].outcome.error.statusCode # Num(0)

\* The detail a server supplied in an error body: its detail field, else its
\* message field, else none.
SuppliedDetail(body) ==
  IF body.type # "object" THEN NoStr
  ELSE IF body.detail.t = "str" THEN Str(body.detail.s)
  ELSE IF body.message.t = "str" THEN Str(body.message.s)
  ELSE NoStr

\* C18: the error of a non-2xx response has as detail the body's detail
\* field, or without it the body's message field; when the body has neither
\* the detail is undefined, not the empty string.
C18_DetailFromBody ==
  \A c \in Calls :
    /\ GotFailure(c) =>
         calls[c].outcome.error.detail = SuppliedDetail(calls[c].resp.body)
    /\ (calls[c].kind = "sdk" /\ GotResponse(c) /\ ~ok(calls[c].resp.status)
         /\ calls[c].outcome.kind = "error"
         /\ calls[c].outcome.error.payload.type = "object") =>
         calls[c].outcome.error.detail =
           SuppliedDetail(calls[c].outcome.error.payload)

\* The body the hand-written client makes of a call's own arguments.
OwnBody(c) ==
  IF calls[c].op = "fetch"
    THEN JSONstringify(LegacyFetchBody(calls[c].args.url, calls[c].args.prompt))
    ELSE JSONstringify(LegacySearchBody(calls[c].args.query,
                                        calls[c].args.options))

\* A call settles with the outcome of its own request.
OwnOutcome(c) ==
  /\ calls[c].aborted =>
       /\ calls[c].outcome.error.name = "TimeoutError"
       /\ calls[c].resp = NoResp /\ ~calls[c].failure.def
  /\ TransportFailed(c) =>
       /\ calls[c].outcome.error.message = NETWORK_ERROR \o calls[c].failure.val
       /\ calls[c].resp = NoResp
  /\ GotFailure(c) =>
       /\ calls[c].outcome.error.statusCode = Num(calls[c].resp.status)
       /\ ~calls[c].aborted /\ ~calls[c].failure.def
  /\ GotResult(c) =>
       /\ calls[c].outcome = Returned(JStr(calls[c].resp.body.result.s))
       /\ ~calls[c].aborted /\ ~calls[c].failure.def

\* C19: calls in flight together on one client are independent: each sends
\* the body made of its own arguments and settles with the outcome of its own
\* request, and no step of one call (start, response, timeout, transport
\* failure, settlement) changes anything of another call.
C19_CallsIndependent ==
  /\ [](\A c \in Calls :
          /\ LegacyCall(c) => calls[c].req.body = OwnBody(c)
          /\ LegacySettled(c) => OwnOutcome(c))
  /\ [][\A c, d \in Calls :
          (c # d /\ calls'[c] # calls[c]) => calls'[d] = calls[d]]_vars

C19_Witness ==
  \E c, d \in Calls :
    /\ c # d
    /\ LegacySettled(c) /\ calls[c].aborted
    /\ calls[c].outcome.error.name = "TimeoutError"
    /\ GotResult(d)
    /\ calls[d].outcome.kind = "value"
    /\ calls[c].req.body # calls[d].req.body

\* The configuration the hand-written client resolved when it was built.
ResolvedAtConstruction == LegacyConstructor(ctor.config, ctor.env).client

\* C20: the configuration resolved at construction is fixed: no call and no
\* later change of the environment alters the client, every call sends the
\* key, base URL and timeout resolved at construction, and after a failed
\* call the same client can start a further call.
C20_ConfigFixed ==
  /\ [](client.kind = "legacy" =>
          /\ client = ResolvedAtConstruction
          /\ \A c \in Calls :
               LegacyCall(c) =>
                 /\ calls[c].req.apiKey = Str(ResolvedAtConstruction.apiKey)
                 /\ calls[c].req.url =
                      ResolvedAtConstruction.baseUrl \o EndpointOf(c)
                 /\ calls[c].timeout = ResolvedAtConstruction.timeout
          /\ \A c \in OneCall :
               (LegacySettled(c) /\ calls[c].outcome.kind = "error") =>
                 ENABLED CallFetch)
  /\ [][ctor.kind # "none" => client' = client]_vars

C20_Witness ==
  \E c \in Calls :
    /\ LegacySettled(c)
    /\ calls[c].prior = "error"
    /\ calls[c].outcome.kind = "value"
    /\ ~ctor.config.apiKey.def
    /\ env # ctor.env
    /\ ~env.QUERCLE_API_KEY.def
    /\ calls[c].req.apiKey = Str(<<"e">>)

\* C21: a call invokes the transport exactly once: its count of attempts is
\* one from its start on, and still one after it has settled, be it with a
\* timeout, a network failure, a non-2xx status or an invalid body.
C21_SingleAttempt ==
  \A c \in Calls :
    /\ Started(c) => calls[c].attempts = 1
    /\ ~Started(c) => calls[c].attempts = 0

C21_Witness ==
  \E c \in Calls :
    /\ GotFailure(c)
    /\ calls[c].outcome.kind = "error"
    /\ calls[c].prior = "error"
    /\ calls[c].attempts = 1

\* The outcome of a settled call is a value or an error, not both.
OneOutcome(c) ==
  \/ /\ calls[c].outcome.kind = "value"
     /\ calls[c].outcome.error = NoError
     /\ calls[c].outcome.value # JUndefined
     /\ calls[c].kind = "legacy" => calls[c].outcome.value.type = "string"
  \/ /\ calls[c].outcome.kind = "error"
     /\ calls[c].outcome.value = JUndefined
     /\ calls[c].outcome.error # NoError

\* C22: a settled call has exactly one outcome, a validated value or an
\* error, an unsettled call has none, and the outcome of a settled call
\* never changes afterwards: no timer is left that could turn it into a
\* TimeoutError.
C22_OneOutcome ==
  /\ [](\A c \in Calls :
          /\ calls[c].pc = "settled" => OneOutcome(c) /\ ~calls[c].timer
          /\ calls[c].pc # "settled" => calls[c].outcome = NoOutcome)
  /\ [][\A c \in Calls :
          (calls[c].pc = "settled" /\ calls'[c].pc = "settled") =>
            calls'[c].outcome = calls[c].outcome]_vars

C22_Witness ==
  \E c \in Calls :
    /\ GotResult(c)
    /\ calls[c].timeout = Num(100)
    /\ calls[c].outcome.kind = "value"
    /\ calls[c].prior = "error"

\* The URL and method of a call of the hand-written client, for given paths.
PostedTo(c, fetchPath, searchPath) ==
  /\ calls[c].req.method = "POST"
  /\ calls[c].op = "fetch" => calls[c].req.url = client.baseUrl \o fetchPath
  /\ calls[c].op = "search" => calls[c].req.url = client.baseUrl \o searchPath

\* The body of a fetch is { url, prompt }, the caller's arguments.
FetchBodyIsArguments(c) ==
  calls[c].op = "fetch" =>
    calls[c].req.body = <<Prop("url", StrValue(calls[c].args.url)),
                          Prop("prompt", StrValue(calls[c].args.prompt))>>

\* C23 as stated: fetch is a POST to {baseUrl}/v1/fetch with the body
\* { url, prompt } of the caller's arguments, search a POST to
\* {baseUrl}/v1/search.
C23_PostToV1 ==
  \A c \in Calls :
    LegacyCall(c) =>
      /\ PostedTo(c, <<"/", "v1", "/", "fetch">>, <<"/", "v1", "/", "search">>)
      /\ FetchBodyIsArguments(c)

\* C23: fetch is a POST to {baseUrl}/api/v1/fetch with the body
\* { url, prompt } of the caller's arguments, search a POST to
\* {baseUrl}/api/v1/search.
C23_PostToApiV1 ==
  \A c \in Calls :
    LegacyCall(c) =>
      /\ PostedTo(c, <<"/", "api", "/", "v1", "/", "fetch">>,
                   <<"/", "api", "/", "v1", "/", "search">>)
      /\ FetchBodyIsArguments(c)

C23_Witness ==
  \E c \in Calls :
    /\ LegacyCall(c)
    /\ calls[c].op = "fetch"
    /\ ctor.config.baseUrl = Str(<<"u", "/">>)
    /\ calls[c].req.url = <<"u", "/", "api", "/", "v1", "/", "fetch">>
    /\ HasField(calls[c].req.body, "prompt")

\* A call of rawFetch, rawSearch or extract.
RawCall(c) ==
  Started(c) /\ calls[c].op \in {"raw_fetch", "raw_search", "extract"}

\* C24: the body of rawFetch, rawSearch and extract holds format exactly
\* when the option format was supplied, and use_safeguard exactly when
\* useSafeguard was, false included, each with the supplied value unchanged.
C24_OptionalFieldsVerbatim ==
  \A c \in Calls :
    RawCall(c) =>
      /\ HasField(calls[c].req.body, "format")
           <=> calls[c].args.options.format.def
      /\ HasField(calls[c].req.body, "format") =>
           FieldOf(calls[c].req.body, "format")
             = StrValue(calls[c].args.options.format.val)
      /\ HasField(calls[c].req.body, "use_safeguard")
           <=> calls[c].args.options.useSafeguard.def
      /\ HasField(calls[c].req.body, "use_safeguard") =>
           FieldOf(calls[c].req.body, "use_safeguard")
             = BoolValue(calls[c].args.options.useSafeguard.val)

C24_Witness ==
  \E c \in Calls :
    /\ RawCall(c)
    /\ calls[c].op = "extract"
    /\ calls[c].args.options.useSafeguard = Bool(FALSE)
    /\ ~calls[c].args.options.format.def
    /\ FieldOf(calls[c].req.body, "use_safeguard") = BoolValue(FALSE)
    /\ ~HasField(calls[c].req.body, "format")

\* C25: by the time a call settles its timer is cleared and no abort
\* listener is left registered, whichever way it settled: success, non-2xx
\* error, timeout, transport failure or undecodable body.
C25_TimerCleared ==
  \A c \in Calls :
    calls[c].pc = "settled" => ~calls[c].timer /\ ~calls[c].listener

C25_Witness ==
  \E c \in Calls :
    /\ calls[c].kind = "sdk"
    /\ calls[c].pc = "settled"
    /\ calls[c].timeout = Num(100)
    /\ calls[c].upstream = "live"
    /\ calls[c].outcome.kind = "value"
    /\ ~calls[c].timer /\ ~calls[c].listener

\* A call in flight that was started with a timeout.
InFlightWithTimeout(c) ==
  calls[c].pc \in {"awaiting", "reading"} /\ calls[c].timeout.def

\* C26: every call started with a timeout settles in the end, whatever the
\* server does, also when it sends the head of a response and never the
\* rest of the body.
C26_EventuallySettles ==
  \A c \in Calls : InFlightWithTimeout(c) ~> calls[c].pc = "settled"

\* A call of the generated-transport client that runs under
\* createTimeoutFetch.
WrappedCall(c) == calls[c].kind = "sdk" /\ calls[c].timeout.def

\* C27: in a call with a per-call timeout, while the transport call is
\* pending its signal is aborted exactly when the timer has fired or the
\* upstream signal has, by the same controller.abort(); once the transport
\* call has completed the timer and the listener are released, and an
\* upstream abort then changes neither the signal nor the outcome.
C27_EitherAborts ==
  /\ [](\A c \in Calls :
          WrappedCall(c) =>
            /\ calls[c].pc = "awaiting" =>
                 /\ calls[c].aborted <=>
                      (~calls[c].timer \/ calls[c].upstream = "aborted")
                 /\ calls[c].listener <=> calls[c].upstream = "live"
            /\ calls[c].pc = "settled" =>
                 ~calls[c].timer /\ ~calls[c].listener)
  /\ [][\A c \in Calls :
          (WrappedCall(c) /\ calls[c].pc = "settled"
           /\ calls'[c].pc = "settled") =>
            /\ calls'[c].aborted = calls[c].aborted
            /\ calls'[c].outcome = calls[c].outcome]_vars

C27_Witness ==
  \E c \in Calls :
    /\ WrappedCall(c)
    /\ calls[c].pc = "settled"
    /\ calls[c].upstream = "aborted"
    /\ ~calls[c].aborted
    /\ calls[c].outcome.kind = "value"

\* A call whose transport call began with an already aborted signal.
BornAborted(c) ==
  calls[c].kind = "sdk" /\ Started(c) /\ calls[c].args.signal = "aborted"

\* C28: a call started with an already aborted signal hands the transport
\* an aborted signal and fails with a TimeoutError; it never returns a
\* response as a success.
C28_AbortedSignalTimesOut ==
  \A c \in Calls :
    BornAborted(c) =>
      /\ calls[c].aborted
      /\ calls[c].pc = "settled" =>
           /\ calls[c].outcome.kind = "error"
           /\ calls[c].outcome.error.name = "TimeoutError"

\* C29: the error that the mapping of a non-2xx response produces is the
\* error the caller of fetch or search gets, with the same kind, statusCode,
\* message and detail: it is not wrapped again as a network error or as a
\* TimeoutError, and not replaced by the invalid-response error.
C29_MappedErrorUnchanged ==
  \A c \in Calls :
    GotFailure(c) =>
      /\ calls[c].outcome = Thrown(handleError(calls[c].resp))
      /\ "QuercleError" \in calls[c].outcome.error.classes
      /\ calls[c].outcome.error.statusCode # Num(0)
      /\ ~StartsWith(calls[c].outcome.error.message, NETWORK_ERROR)
      /\ calls[c].outcome.error.name = "TimeoutError" =>
           calls[c].resp.status = 504
      /\ calls[c].outcome.error.message # <<"Invalid response from API">>

C29_Witness ==
  \E c \in Calls :
    /\ GotFailure(c)
    /\ calls[c].resp.status = 401
    /\ calls[c].outcome.error.name = "AuthenticationError"
    /\ calls[c].outcome.error.detail = Str(<<"Invalid API key">>)

SdkSettled(c) == calls[c].kind = "sdk" /\ calls[c].pc = "settled"

IsBlank(str) == trim(str) = <<>>

\* The detail an operation's error carries: the error itself when it is a
\* non-blank string, its detail field when that is one, else none.
DetailOfError(error) ==
  IF error.type = "string"
    THEN (IF IsBlank(error.str) THEN NoStr ELSE Str(error.str))
  ELSE IF error.type = "object" /\ error.detail.t = "str"
          /\ ~IsBlank(error.detail.s)
    THEN Str(error.detail.s)
  ELSE NoStr

\* C30: unwrapResult returns the data exactly when the operation result has
\* data and no error; otherwise it throws a QuercleApiError with the name of
\* the operation, the status of the response or 0 without one, the detail of
\* the error (its non-blank string or detail field, else undefined) and the
\* raw error as payload.
C30_UnwrapResult ==
  \A c \in Calls :
    SdkSettled(c) =>
      IF calls[c].result.data # JUndefined /\ calls[c].result.error = JUndefined
        THEN calls[c].outcome = Returned(calls[c].result.data)
        ELSE /\ calls[c].outcome.kind = "error"
             /\ calls[c].outcome.value = JUndefined
             /\ calls[c].outcome.error.name = "QuercleApiError"
             /\ calls[c].outcome.error.operation = calls[c].op
             /\ calls[c].outcome.error.statusCode =
                  (IF calls[c].result.response.def
                     THEN calls[c].result.response ELSE Num(0))
             /\ calls[c].outcome.error.detail
                  = DetailOfError(calls[c].result.error)
             /\ calls[c].outcome.error.payload = calls[c].result.error

C30_Witness ==
  \E c \in Calls :
    /\ SdkSettled(c)
    /\ calls[c].result.data # JUndefined
    /\ calls[c].result.error # JUndefined
    /\ calls[c].op = "search"
    /\ calls[c].outcome.error.name = "QuercleApiError"
    /\ calls[c].outcome.error.statusCode = Num(401)
    /\ calls[c].outcome.error.detail = Str(<<"Invalid API key">>)

====
